---- MODULE Spec2Model ----
(***************************************************************************)
(* Model of the Brief-AI bridge (brief-ai/index.ts) and of its context     *)
(* store (processors/contextManager.ts).                                   *)
(*                                                                         *)
(* A string is the sequence of its characters, one one-character string    *)
(* per position.  A value of type `string | undefined` is Undefined or     *)
(* Some(s).  A Map is a function whose DOMAIN is the set of its keys.      *)
(***************************************************************************)
EXTENDS Integers, Sequences, FiniteSets, TLC

VARIABLES
  messageHistory,   \* ContextManager.messageHistory : Map<chatId, MessageHistoryEntry[]>
  knowledgeBase,    \* ContextManager.knowledgeBase  : Map<chatId, FileEntry[]>
  histLog,          \* history variable: per chat, the messages added since its history was last cleared
  fileLog,          \* history variable: per chat, the files added since its knowledge base was last cleared
  cleared,          \* history variable: per chat, what the last clear of each map found, if nothing was added since
  dedalusAgent,     \* the handle `dedalusAgent`: 0 for null, else the number of the child process
  procs,            \* the child processes spawned so far: state, stdout listeners, lines written to stdin
  sends,            \* the calls of queryDedalusAgent so far: timer, Promise, and the response that settled it
  now,              \* the clock, in ms
  asked,            \* history variable: the calls of answerQuestion so far, and the branch each took
  handlers,         \* the calls of onGroupMessage so far: the message, where the call stands, its replies
  legacy            \* the module state of the earlier fileHandler: its messageHistory map, the arrays it refers to, the calls of addMessageToHistory

storeVars == <<messageHistory, knowledgeBase, histLog, fileLog, cleared>>
agentVars == <<dedalusAgent, procs, sends, now, asked>>
otherVars == <<handlers, legacy>>

----------------------------------------------------------------------------
(* Bounds *)

\* number of add calls before the questions of SpecAnswer
MaxAnswerAppends == 8

\* number of calls of answerQuestion
MaxAsks == 1

\* number of calls of the earlier addMessageToHistory
MaxLegacyCalls == 3

\* number of group messages
MaxMessages == 2

\* number of group messages of one conversation while a question waits
MaxBusyMessages == 12

\* number of add calls of SpecRender
MaxRenderAppends == 2

\* number of add calls recorded in histLog and fileLog together, over all chats
MaxAppends == 12

\* the same for the specification of both maps together
MaxStoreAppends == 23

\* calls of queryDedalusAgent
MaxSends == 2

\* child processes spawned
MaxSpawns == 2

\* lines in one chunk of the agent's output
MaxChunkLines == 2

\* steps of the clock
MaxTicks == 2

----------------------------------------------------------------------------
(* Program constants and input domains *)

MAX_HISTORY == 10
MAX_FILES == 10

Chats == {"A", "B"}

\* a conversation id no operation is ever applied to
NeverUsedChat == "Z"

Undefined == [defined |-> FALSE]
Some(s) == [defined |-> TRUE, value |-> s]

\* JavaScript truthiness of a `string | undefined`
Truthy(o) == o.defined /\ o.value # <<>>

NL == <<"\n">>

\* messages as the iMessage SDK delivers them (timestamps are never read and are left out)
PlainMessage ==
  [isFromMe |-> FALSE, senderName |-> Undefined, text |-> Some(<<"h","i">>),
   attachments |-> <<>>]

OwnFileMessage ==
  [isFromMe |-> TRUE, senderName |-> Some(<<"B","o","t">>), text |-> Undefined,
   attachments |-> << [filename |-> <<"n",".","P","D","F">>] >>]

Messages == {PlainMessage, OwnFileMessage}

EmptyFile == [filename |-> <<"a",".","t","x","t">>, content |-> <<>>]
NotesFile == [filename |-> <<"n","o","t","e","s",".","p","d","f">>, content |-> <<"H","e","l","l","o"," ","w","o","r","l","d">>]

Files == {EmptyFile, NotesFile}

\* a filename of n + 4 characters
LongName(n) == [i \in 1..n |-> "x"] \o <<".","p","d","f">>

\* the lengths that put the extracted content "[PDF Document: <filename>]" of
\* LongName(n), n + 20 characters, just below, at and just above 500
NameLengths == 478..483

\* a message that carries one attachment with a long filename
LongFileMessage(n) ==
  [isFromMe |-> FALSE, senderName |-> Some(<<"A","l">>), text |-> Undefined,
   attachments |-> << [filename |-> LongName(n)] >>]

----------------------------------------------------------------------------
(* Arrays, Maps and strings *)

\* Array.prototype.shift: drop the first element
Shift(s) == SubSeq(s, 2, Len(s))

\* Map.prototype.get(k) || []
GetOrEmpty(m, k) == IF k \in DOMAIN m THEN m[k] ELSE <<>>

\* Map.prototype.set(k, v)
MapSet(m, k, v) == [x \in (DOMAIN m) \cup {k} |-> IF x = k THEN v ELSE m[x]]

\* mutant: Map.prototype.clear() where delete(k) was meant
MapDelete_Clear(m, k) == [x \in {} |-> m[x]]

\* Map.prototype.delete(k)
MapDelete(m, k) == [x \in (DOMAIN m) \ {k} |-> m[x]]

RECURSIVE Join(_, _)
\* Array.prototype.join(sep) of an array of strings
Join(ss, sep) ==
  IF ss = <<>> THEN <<>>
  ELSE IF Len(ss) = 1 THEN Head(ss)
  ELSE Head(ss) \o sep \o Join(Tail(ss), sep)

UpperCase == <<"A","B","C","D","E","F","G","H","I","J","K","L","M","N","O","P","Q","R","S","T","U","V","W","X","Y","Z">>
LowerCase == <<"a","b","c","d","e","f","g","h","i","j","k","l","m","n","o","p","q","r","s","t","u","v","w","x","y","z">>

\* String.prototype.toLowerCase
ToLowerCase(s) ==
  [i \in 1..Len(s) |->
     IF \E k \in 1..Len(UpperCase) : UpperCase[k] = s[i]
     THEN LowerCase[CHOOSE k \in 1..Len(UpperCase) : UpperCase[k] = s[i]]
     ELSE s[i]]

\* s.split('.').pop(): what follows the last '.', the whole of s when it has none
AfterLastDot(s) ==
  LET dots == {i \in 1..Len(s) : s[i] = "."}
  IN  IF dots = {} THEN s
      ELSE SubSeq(s, (CHOOSE i \in dots : \A j \in dots : j <= i) + 1, Len(s))

----------------------------------------------------------------------------
(* ContextManager *)

\* filename.toLowerCase().split('.').pop() || ''
getFileExtension(filename) == AfterLastDot(ToLowerCase(filename))

getFileTypeDescription(filename) ==
  LET ext == getFileExtension(filename)
  IN  CASE ext = <<"p","d","f">> -> <<"P","D","F"," ","D","o","c","u","m","e","n","t">>
        [] ext \in {<<"j","p","g">>, <<"j","p","e","g">>, <<"p","n","g">>, <<"g","i","f">>} -> <<"I","m","a","g","e">>
        [] ext = <<"t","x","t">> -> <<"T","e","x","t"," ","F","i","l","e">>
        [] ext = <<"m","d">> -> <<"M","a","r","k","d","o","w","n"," ","F","i","l","e">>
        [] OTHER -> <<"F","i","l","e">>

\* mutant: the shift is forgotten
PushBounded_NoShift(arr, x, max) == Append(arr, x)

\* the push and the shift of both add operations
PushBounded(arr, x, max) ==
  LET pushed == Append(arr, x)
  IN  IF Len(pushed) > max THEN Shift(pushed) ELSE pushed

\* mutant: an entry of the same filename is replaced in place
addFileToKnowledgeBase_Dedup(kb, chatId, filename, content) ==
  LET files == GetOrEmpty(kb, chatId)
      entry == [filename |-> filename, content |-> content]
  IN  IF \E i \in 1..Len(files) : files[i].filename = filename
      THEN [x \in (DOMAIN kb) \cup {chatId} |->
              IF x = chatId
              THEN [i \in 1..Len(files) |->
                      IF files[i].filename = filename THEN entry ELSE files[i]]
              ELSE kb[x]]
      ELSE [x \in (DOMAIN kb) \cup {chatId} |->
              IF x = chatId THEN Append(files, entry) ELSE kb[x]]

\* the knowledgeBase map after addFileToKnowledgeBase(chatId, filename, content)
addFileToKnowledgeBase(kb, chatId, filename, content) ==
  LET files == GetOrEmpty(kb, chatId)
  IN  MapSet(kb, chatId,
             PushBounded(files, [filename |-> filename, content |-> content], MAX_FILES))

\* mutant: the content is cut at its first space
FileSection_FirstWord(file) ==
  LET spaces == {i \in 1..Len(file.content) : file.content[i] = " "}
      cut == IF spaces = {} THEN Len(file.content)
             ELSE (CHOOSE i \in spaces : \A k \in spaces : i <= k) - 1
  IN  <<"-","-","-"," ","C","o","n","t","e","n","t"," ","f","r","o","m"," ">> \o file.filename \o <<" ","-","-","-","\n">> \o SubSeq(file.content, 1, cut)
        \o <<"\n","-","-","-"," ","E","n","d"," ","o","f"," ","C","o","n","t","e","n","t"," ","-","-","-">>

\* one element of files.map(...) in getKnowledgeBase
FileSection(file) ==
  <<"-","-","-"," ","C","o","n","t","e","n","t"," ","f","r","o","m"," ">> \o file.filename \o <<" ","-","-","-","\n">> \o file.content
    \o <<"\n","-","-","-"," ","E","n","d"," ","o","f"," ","C","o","n","t","e","n","t"," ","-","-","-">>

\* mutant: files without content count as no files
getKnowledgeBase_EmptyIsAbsent(kb, chatId) ==
  LET files == IF chatId \in DOMAIN kb THEN kb[chatId] ELSE <<>>
  IN  IF \A i \in 1..Len(files) : files[i].content = <<>> THEN [defined |-> FALSE]
      ELSE [defined |-> TRUE, value |-> <<"f","i","l","e","s">>]

getKnowledgeBase(kb, chatId) ==
  LET files == GetOrEmpty(kb, chatId)
  IN  IF Len(files) = 0 THEN Undefined
      ELSE Some(Join([i \in 1..Len(files) |-> FileSection(files[i])], <<"\n","\n">>))

\* mutant: the entry is deleted from the other map
clearKnowledgeBase_WrongMap(kb, chatId) == kb

clearKnowledgeBase(kb, chatId) == MapDelete(kb, chatId)

\* the entry addMessageToHistory builds from a message
HistoryEntry(message) ==
  [senderName |-> IF message.isFromMe THEN <<"Y","o","u">>
                  ELSE IF Truthy(message.senderName) THEN message.senderName.value
                  ELSE <<"U","n","k","n","o","w","n">>,
   text |-> message.text,
   attachments |->
     IF Len(message.attachments) > 0
     THEN Some([i \in 1..Len(message.attachments) |->
                 LET filename == message.attachments[i].filename
                 IN [filename |-> filename,
                     type |-> getFileExtension(filename),
                     extractedContent |->
                       Some(<<"[">> \o getFileTypeDescription(filename) \o <<":"," ">>
                              \o filename \o <<"]">>)]])
     ELSE Undefined]

\* mutant: the newest entry is evicted (pop) instead of the oldest (shift)
addMessageToHistory_Pop(mh, chatId, message) ==
  LET history == IF chatId \in DOMAIN mh THEN mh[chatId] ELSE <<>>
      pushed == Append(history, HistoryEntry(message))
  IN  [x \in (DOMAIN mh) \cup {chatId} |->
         IF x = chatId
         THEN (IF Len(pushed) > MAX_HISTORY THEN SubSeq(pushed, 1, Len(pushed) - 1) ELSE pushed)
         ELSE mh[x]]

\* the messageHistory map after addMessageToHistory(chatId, message)
addMessageToHistory(mh, chatId, message) ==
  LET history == GetOrEmpty(mh, chatId)
  IN  MapSet(mh, chatId, PushBounded(history, HistoryEntry(message), MAX_HISTORY))

MAX_CONTENT == 500

\* mutant: content of exactly MAX_CONTENT characters is cut too
AttachmentLines_CutAtCap(attachment) ==
  <<"\n"," "," ","[","A","t","t","a","c","h","m","e","n","t",":"," ">> \o attachment.filename \o <<"]">>
    \o (IF Truthy(attachment.extractedContent)
        THEN LET ec == attachment.extractedContent.value
                 content == IF Len(ec) >= MAX_CONTENT
                            THEN SubSeq(ec, 1, MAX_CONTENT) \o <<".",".",".">>
                            ELSE ec
             IN  <<"\n"," "," ","C","o","n","t","e","n","t",":"," ">> \o content
        ELSE <<>>)

\* what getConversationContext appends to messageLine for one attachment
AttachmentLines(attachment) ==
  <<"\n"," "," ","[","A","t","t","a","c","h","m","e","n","t",":"," ">> \o attachment.filename \o <<"]">>
    \o (IF Truthy(attachment.extractedContent)
        THEN LET ec == attachment.extractedContent.value
                 content == IF Len(ec) > MAX_CONTENT
                            THEN SubSeq(ec, 1, MAX_CONTENT) \o <<".",".",".">>
                            ELSE ec
             IN  <<"\n"," "," ","C","o","n","t","e","n","t",":"," ">> \o content
        ELSE <<>>)

RECURSIVE ConcatAll(_)
ConcatAll(ss) == IF ss = <<>> THEN <<>> ELSE Head(ss) \o ConcatAll(Tail(ss))

\* messageLine of one history entry
MessageLine(entry) ==
  entry.senderName \o <<":"," ">>
    \o (IF Truthy(entry.text) THEN entry.text.value ELSE <<>>)
    \o (IF entry.attachments.defined /\ Len(entry.attachments.value) > 0
        THEN ConcatAll([i \in 1..Len(entry.attachments.value) |->
                          AttachmentLines(entry.attachments.value[i])])
        ELSE <<>>)

HISTORY_HEADER == <<"-","-","-"," ","R","e","c","e","n","t"," ","C","o","n","v","e","r","s","a","t","i","o","n"," ","H","i","s","t","o","r","y"," ","-","-","-">>
HISTORY_FOOTER == <<"-","-","-"," ","E","n","d"," ","o","f"," ","C","o","n","v","e","r","s","a","t","i","o","n"," ","H","i","s","t","o","r","y"," ","-","-","-">>

getConversationContext(mh, chatId) ==
  LET history == GetOrEmpty(mh, chatId)
  IN  IF Len(history) = 0 THEN <<>>
      ELSE Join(<<HISTORY_HEADER>>
                  \o [i \in 1..Len(history) |-> MessageLine(history[i])]
                  \o <<HISTORY_FOOTER>>, NL)

clearMessageHistory(mh, chatId) == MapDelete(mh, chatId)

----------------------------------------------------------------------------
(* Context store: operations *)

TotalAppends ==
  LET RECURSIVE Sum(_)
      Sum(S) == IF S = {} THEN 0
                ELSE LET c == CHOOSE x \in S : TRUE
                     IN  Len(histLog[c]) + Len(fileLog[c]) + Sum(S \ {c})
  IN  Sum(Chats)

NotCleared == [h |-> "no", k |-> "no"]

StoreInit ==
  /\ messageHistory = [c \in {} |-> <<>>]
  /\ knowledgeBase = [c \in {} |-> <<>>]
  /\ histLog = [c \in Chats |-> <<>>]
  /\ fileLog = [c \in Chats |-> <<>>]
  /\ cleared = [c \in Chats |-> NotCleared]

\* contextManager.addMessageToHistory(chatId, message)
AddMessageToHistory(chatId, message, budget) ==
  /\ TotalAppends < budget
  /\ messageHistory' = addMessageToHistory(messageHistory, chatId, message)
  /\ histLog' = [histLog EXCEPT ![chatId] = Append(@, message)]
  /\ cleared' = [cleared EXCEPT ![chatId].h = "no"]
  /\ UNCHANGED <<knowledgeBase, fileLog>>
  /\ UNCHANGED agentVars
  /\ UNCHANGED otherVars

\* contextManager.addFileToKnowledgeBase(chatId, filename, content)
AddFileToKnowledgeBase(chatId, file, budget) ==
  /\ TotalAppends < budget
  /\ knowledgeBase' = addFileToKnowledgeBase(knowledgeBase, chatId, file.filename, file.content)
  /\ fileLog' = [fileLog EXCEPT ![chatId] = Append(@, file)]
  /\ cleared' = [cleared EXCEPT ![chatId].k = "no"]
  /\ UNCHANGED <<messageHistory, histLog>>
  /\ UNCHANGED agentVars
  /\ UNCHANGED otherVars

\* contextManager.clearMessageHistory(chatId)
ClearMessageHistory(chatId) ==
  /\ messageHistory' = clearMessageHistory(messageHistory, chatId)
  /\ histLog' = [histLog EXCEPT ![chatId] = <<>>]
  /\ cleared' = [cleared EXCEPT ![chatId].h =
                   IF histLog[chatId] # <<>> THEN "wiped"
                   ELSE IF @ = "no" THEN "empty" ELSE @]
  /\ UNCHANGED <<knowledgeBase, fileLog>>
  /\ UNCHANGED agentVars
  /\ UNCHANGED otherVars

\* contextManager.clearKnowledgeBase(chatId)
ClearKnowledgeBase(chatId) ==
  /\ knowledgeBase' = clearKnowledgeBase(knowledgeBase, chatId)
  /\ fileLog' = [fileLog EXCEPT ![chatId] = <<>>]
  /\ cleared' = [cleared EXCEPT ![chatId].k =
                   IF fileLog[chatId] # <<>> THEN "wiped"
                   ELSE IF @ = "no" THEN "empty" ELSE @]
  /\ UNCHANGED <<messageHistory, histLog>>
  /\ UNCHANGED agentVars
  /\ UNCHANGED otherVars

----------------------------------------------------------------------------
(* Agent process supervisor: brief-ai/index.ts *)

TIMEOUT_MS == 120000

\* the clock advances in steps of half a deadline
ClockStep == TIMEOUT_MS \div 2

Queries == {<<"w","h","y">>}

Digits == <<"1", "2", "3", "4", "5", "6", "7", "8", "9">>

\* what the agent prints for the request of send number q
AnswerTo(q) == <<"r","e">> \o <<Digits[q]>>

\* the lines the agent may print for the request of send number q; `for` is
\* the request the line answers, which the line itself does not carry
ResponseLines(q) ==
  { [status |-> "success", result |-> Some(AnswerTo(q)), received |-> Undefined,
     error |-> Undefined, for |-> q],
    [status |-> "success", result |-> Some(<<>>), received |-> Undefined,
     error |-> Undefined, for |-> q],
    [status |-> "error", result |-> Undefined, received |-> Undefined,
     error |-> Some(<<"b","o","o","m">>), for |-> q] }

\* a line that is no JSON, or JSON whose status is neither success nor error
NoiseLine ==
  [status |-> "none", result |-> Undefined, received |-> Undefined,
   error |-> Undefined, for |-> 0]

IsResponse(line) == line.status \in {"success", "error"}

\* a process just spawned: nothing written, no listener attached; partial is
\* the request whose response line it has printed in part, split the requests
\* whose response line it printed in two chunks
NewProcess ==
  [state |-> "running", listeners |-> <<>>, stdin |-> <<>>, answered |-> {},
   partial |-> 0, split |-> {}]

\* child processes that have not exited
Alive == {p \in 1..Len(procs) : procs[p].state # "exited"}

AgentInit ==
  /\ dedalusAgent = 0
  /\ procs = <<>>
  /\ sends = <<>>
  /\ now = 0
  /\ asked = <<>>

\* mutant: startDedalusAgent spawns whether or not a handle exists
startDedalusAgent_Always(handle, ps) ==
  [handle |-> Len(ps) + 1, procs |-> Append(ps, NewProcess)]

\* startDedalusAgent(): the handle, and the processes, after the call
startDedalusAgent(handle, ps) ==
  IF handle # 0 THEN [handle |-> handle, procs |-> ps]
  ELSE [handle |-> Len(ps) + 1, procs |-> Append(ps, NewProcess)]

\* ChildProcess.kill(): SIGTERM is sent; the process exits later, if it was running
Kill(proc) == IF proc.state = "running" THEN [proc EXCEPT !.state = "signalled"] ELSE proc

\* stopDedalusAgent(): the handle, and the processes, after the call
stopDedalusAgent(handle, ps) ==
  IF handle # 0
  THEN [handle |-> 0, procs |-> [ps EXCEPT ![handle] = Kill(@)]]
  ELSE [handle |-> handle, procs |-> ps]

StartDedalusAgent ==
  /\ dedalusAgent # 0 \/ Len(procs) < MaxSpawns
  /\ LET after == startDedalusAgent(dedalusAgent, procs)
     IN  /\ dedalusAgent' = after.handle
         /\ procs' = after.procs
  /\ UNCHANGED <<sends, now>>
  /\ UNCHANGED asked
  /\ UNCHANGED storeVars
  /\ UNCHANGED otherVars

StopDedalusAgent ==
  /\ LET after == stopDedalusAgent(dedalusAgent, procs)
     IN  /\ dedalusAgent' = after.handle
         /\ procs' = after.procs
  /\ UNCHANGED <<sends, now>>
  /\ UNCHANGED asked
  /\ UNCHANGED storeVars
  /\ UNCHANGED otherVars

\* the child process ends: by itself, or after the signal of kill()
ProcessExit(p) ==
  /\ p \in Alive
  /\ procs' = [procs EXCEPT ![p].state = "exited"]
  /\ UNCHANGED <<dedalusAgent, sends, now>>
  /\ UNCHANGED asked
  /\ UNCHANGED storeVars
  /\ UNCHANGED otherVars

\* what the Promise executor of queryDedalusAgent registers for a new send;
\* matched is the status of the response its onData last took while the send
\* was pending, sawNoise whether its onData has skipped a line
NewSend(query, chatId, pid, time) ==
  [query |-> query, chatId |-> chatId, pid |-> pid, startedAt |-> time,
   timer |-> "armed", outcome |-> "pending", value |-> Undefined, settledBy |-> 0,
   matched |-> "none", sawNoise |-> FALSE]

\* queryDedalusAgent(query, chatId) up to the return of the Promise: what it
\* does to the supervisor
SendQuery(query, chatId) ==
  /\ dedalusAgent # 0 \/ Len(procs) < MaxSpawns
  /\ LET started == startDedalusAgent(dedalusAgent, procs)
         pid == started.handle
         q == Len(sends) + 1
     IN  /\ dedalusAgent' = pid
         /\ sends' = Append(sends, NewSend(query, chatId, pid, now))
         /\ procs' = [started.procs EXCEPT
                        ![pid].listeners = Append(@, q),
                        ![pid].stdin = Append(@, [query |-> query, chat_id |-> chatId])]
  /\ UNCHANGED now

\* queryDedalusAgent(query, chatId), called by itself
QueryDedalusAgent(query, chatId) ==
  /\ Len(sends) < MaxSends
  /\ SendQuery(query, chatId)
  /\ UNCHANGED asked
  /\ UNCHANGED storeVars
  /\ UNCHANGED otherVars

\* the setTimeout callback of send q
TimeoutFires(q) ==
  /\ q \in 1..Len(sends)
  /\ sends[q].timer = "armed"
  /\ now >= sends[q].startedAt + TIMEOUT_MS
  /\ sends' = [sends EXCEPT ![q] =
                 [@ EXCEPT !.timer = "fired",
                           !.outcome = IF @ = "pending" THEN "rejected" ELSE @,
                           !.value = IF sends[q].outcome = "pending"
                                     THEN Some(<<"D","e","d","a","l","u","s"," ","a","g","e","n","t"," ","t","i","m","e","o","u","t">>) ELSE @]]
  /\ UNCHANGED <<dedalusAgent, procs, now>>
  /\ UNCHANGED asked
  /\ UNCHANGED storeVars
  /\ UNCHANGED otherVars

\* resolve(v) or reject(v) of a Promise: the first settlement stands
Settle(send, outcome, value, line) ==
  IF send.outcome = "pending"
  THEN [send EXCEPT !.outcome = outcome, !.value = value, !.settledBy = line.for]
  ELSE send

RECURSIVE onData_StopAtNoise(_, _, _)
\* onData if a line that is no response ended the loop
onData_StopAtNoise(send, lines, handle) ==
  IF lines = <<>> THEN [send |-> send, off |-> FALSE]
  ELSE
    LET line == Head(lines)
        disarmed == [send EXCEPT !.timer = IF @ = "armed" THEN "cleared" ELSE @,
                                 !.matched = IF send.outcome = "pending"
                                             THEN line.status ELSE @]
    IN  IF ~IsResponse(line)
        THEN [send |-> [send EXCEPT !.sawNoise = TRUE], off |-> FALSE]
        ELSE IF handle = 0 THEN onData_StopAtNoise(disarmed, Tail(lines), handle)
        ELSE IF line.status = "success"
        THEN [send |-> Settle(disarmed, "resolved",
                              IF Truthy(line.result) THEN line.result ELSE line.received,
                              line),
              off |-> TRUE]
        ELSE [send |-> Settle(disarmed, "rejected", line.error, line), off |-> TRUE]

RECURSIVE onData(_, _, _)
\* onData of one send on a chunk of lines, with the handle as it is during the
\* emit: the send afterwards, and whether its listener was taken off
onData(send, lines, handle) ==
  IF lines = <<>> THEN [send |-> send, off |-> FALSE]
  ELSE
    LET line == Head(lines)
        disarmed == [send EXCEPT !.timer = IF @ = "armed" THEN "cleared" ELSE @,
                                 !.matched = IF send.outcome = "pending"
                                             THEN line.status ELSE @]
    IN  IF ~IsResponse(line)
        THEN onData([send EXCEPT !.sawNoise = TRUE], Tail(lines), handle)
        \* dedalusAgent!.stdout on a null handle throws inside the try: the catch
        \* swallows it, after clearTimeout, and the loop goes on
        ELSE IF handle = 0 THEN onData(disarmed, Tail(lines), handle)
        ELSE IF line.status = "success"
        THEN [send |-> Settle(disarmed, "resolved",
                              IF Truthy(line.result) THEN line.result ELSE line.received,
                              line),
              off |-> TRUE]
        ELSE [send |-> Settle(disarmed, "rejected", line.error, line), off |-> TRUE]

\* the ids of s without those of drop, in order
Without(s, drop) ==
  LET F[i \in 0..Len(s)] ==
        IF i = 0 THEN <<>>
        ELSE IF s[i] \in drop THEN F[i - 1] ELSE Append(F[i - 1], s[i])
  IN  F[Len(s)]

\* the sets of lines a process may print in one chunk: answers to requests it
\* has read and not answered yet, in any order, and noise
Chunks(p) ==
  LET open == {q \in 1..Len(sends) :
                 sends[q].pid = p /\ q \notin procs[p].answered}
      lines == UNION {ResponseLines(q) : q \in open} \cup {NoiseLine}
  IN  {c \in UNION {[1..n -> lines] : n \in 1..MaxChunkLines} :
         \A i, j \in 1..Len(c) : (i # j /\ IsResponse(c[i]) /\ IsResponse(c[j]))
                                    => c[i].for # c[j].for}

\* the sends and the processes after every listener attached to the stdout of
\* process p has run on the chunk
Delivered(p, chunk) ==
  LET ls == procs[p].listeners
      listening == {ls[i] : i \in 1..Len(ls)}
      after == [q \in listening |-> onData(sends[q], chunk, dedalusAgent)]
      offs == {q \in listening : after[q].off}
  IN  [sends |-> [q \in 1..Len(sends) |->
                    IF q \in listening THEN after[q].send ELSE sends[q]],
       procs |-> [x \in 1..Len(procs) |->
                    [procs[x] EXCEPT
                       \* off() is called on the stdout of the current handle
                       !.listeners = IF x = dedalusAgent THEN Without(@, offs) ELSE @,
                       !.answered = IF x = p
                                    THEN @ \cup {chunk[i].for : i \in {j \in 1..Len(chunk) : IsResponse(chunk[j])}}
                                    ELSE @]]]

\* a 'data' event of process p's stdout: every listener attached to it gets the chunk
StdoutData(p, chunk) ==
  /\ p \in Alive
  /\ procs[p].partial = 0
  /\ sends' = Delivered(p, chunk).sends
  /\ procs' = Delivered(p, chunk).procs
  /\ UNCHANGED <<dedalusAgent, now>>
  /\ UNCHANGED asked
  /\ UNCHANGED storeVars
  /\ UNCHANGED otherVars

\* a piece of a response line that ends or begins inside its JSON text, as
\* onData sees it: JSON.parse throws on it
Fragment(line) ==
  [status |-> "none", result |-> Undefined, received |-> Undefined,
   error |-> Undefined, for |-> line.for]

\* a 'data' event that ends inside the response line to request q
StdoutHead(p, line) ==
  /\ p \in Alive
  /\ procs[p].partial = 0
  /\ sends' = Delivered(p, <<Fragment(line)>>).sends
  /\ procs' = [Delivered(p, <<Fragment(line)>>).procs EXCEPT ![p].partial = line.for]
  /\ UNCHANGED <<dedalusAgent, now>>
  /\ UNCHANGED asked
  /\ UNCHANGED storeVars
  /\ UNCHANGED otherVars

\* the 'data' event with the rest of the line
StdoutTail(p, line) ==
  /\ p \in Alive
  /\ procs[p].partial = line.for
  /\ sends' = Delivered(p, <<Fragment(line)>>).sends
  /\ procs' = [Delivered(p, <<Fragment(line)>>).procs EXCEPT
                 ![p].partial = 0,
                 ![p].answered = @ \cup {line.for},
                 ![p].split = @ \cup {line.for}]
  /\ UNCHANGED <<dedalusAgent, now>>
  /\ UNCHANGED asked
  /\ UNCHANGED storeVars
  /\ UNCHANGED otherVars

Tick ==
  /\ now < MaxTicks * ClockStep
  /\ now' = now + ClockStep
  /\ UNCHANGED <<dedalusAgent, procs, sends>>
  /\ UNCHANGED asked
  /\ UNCHANGED storeVars
  /\ UNCHANGED otherVars

----------------------------------------------------------------------------
(* Context assembler: answerQuestion of brief-ai/index.ts *)

\* the questions put to answerQuestion
QDefault == <<"h","i">>
QAnalysis == <<"D","e","s","c","r","i","b","e"," ","I","m","a","g","e">>
QGeneration == <<"D","R","A","W">>
QPicture == <<"m","a","k","e"," ","P","i","c","t","u","r","e">>
QBoth == <<"d","r","a","w"," ","d","a","t","a",":","i","m","a","g","e">>
QUpperPayload == <<"D","A","T","A",":","I","M","A","G","E">>

Questions == {QDefault, QAnalysis, QGeneration, QPicture, QBoth, QUpperPayload}

\* String.prototype.includes, for a search string that is not empty
Includes(s, sub) ==
  \E i \in 1..(Len(s) - Len(sub) + 1) : SubSeq(s, i, i + Len(sub) - 1) = sub

\* String.prototype.split on a one-character separator: the pieces between
\* the places of the separator
Split(s, sep) ==
  LET seps == {i \in 1..Len(s) : s[i] = sep}
      n == Cardinality(seps)
      Pos(k) == CHOOSE i \in seps : Cardinality({j \in seps : j < i}) = k - 1
  IN  [k \in 1..(n + 1) |->
         SubSeq(s, IF k = 1 THEN 1 ELSE Pos(k - 1) + 1,
                   IF k = n + 1 THEN Len(s) ELSE Pos(k) - 1)]

\* the number of lines of the rendered history kept for an image analysis
CONTEXT_LINES == 5

\* Array.prototype.slice(-n)
SliceFromEnd(arr, n) ==
  IF Len(arr) <= n THEN arr ELSE SubSeq(arr, Len(arr) - n + 1, Len(arr))

isImageAnalysis(question) ==
  LET questionLower == ToLowerCase(question)
  IN  \/ Includes(questionLower, <<"a","n","a","l","y","z","e"," ","i","m","a","g","e">>)
      \/ Includes(question, <<"d","a","t","a",":","i","m","a","g","e">>)
      \/ Includes(questionLower, <<"d","e","s","c","r","i","b","e"," ","i","m","a","g","e">>)

isImageGeneration(question) ==
  LET questionLower == ToLowerCase(question)
  IN  \/ Includes(questionLower, <<"c","r","e","a","t","e"," ","i","m","a","g","e">>)
      \/ Includes(questionLower, <<"g","e","n","e","r","a","t","e"," ","i","m","a","g","e">>)
      \/ Includes(questionLower, <<"d","r","a","w">>)
      \/ Includes(questionLower, <<"m","a","k","e"," ","p","i","c","t","u","r","e">>)

\* the branch of answerQuestion a question takes
Branch(question) ==
  IF isImageAnalysis(question) THEN "analysis"
  ELSE IF isImageGeneration(question) THEN "generation"
  ELSE "default"

\* the query of the image-analysis branch
ImageAnalysisQuery(mh, kb, chatId, question) ==
  LET conversationContext == getConversationContext(mh, chatId)
      recentContext ==
        IF conversationContext # <<>>
        THEN Join(SliceFromEnd(Split(conversationContext, "\n"), CONTEXT_LINES), NL)
        ELSE <<>>
  IN  IF recentContext # <<>>
      THEN recentContext \o <<"\n","\n","C","u","r","r","e","n","t"," ","q","u","e","s","t","i","o","n",":"," ">> \o question
      ELSE question

\* mutant: the image-generation branch puts the history before the question
ImageGenerationQuery_WithHistory(mh, kb, chatId, question) ==
  LET conversationContext == getConversationContext(mh, chatId)
  IN  IF conversationContext # <<>>
      THEN conversationContext \o <<"\n","\n","C","u","r","r","e","n","t"," ","q","u","e","s","t","i","o","n",":"," ">> \o question
      ELSE question

\* the query of the image-generation branch
ImageGenerationQuery(mh, kb, chatId, question) == question

\* mutant: the default branch leaves the knowledge base out
DefaultQuery_NoFiles(mh, kb, chatId, question) ==
  LET conversationContext == getConversationContext(mh, chatId)
  IN  IF conversationContext # <<>>
      THEN conversationContext \o <<"\n","\n","C","u","r","r","e","n","t"," ","q","u","e","s","t","i","o","n",":"," ">> \o question
      ELSE question

\* mutant: the default branch labels the question as it does without history
DefaultQuery_QuestionLabel(mh, kb, chatId, question) ==
  LET conversationContext == getConversationContext(mh, chatId)
      fileContext == getKnowledgeBase(kb, chatId)
  IN  IF conversationContext # <<>> /\ Truthy(fileContext)
      THEN conversationContext \o <<"\n","\n","F","i","l","e"," ","c","o","n","t","e","n","t","s",":","\n">> \o fileContext.value
             \o <<"\n","\n","C","u","r","r","e","n","t"," ","q","u","e","s","t","i","o","n",":"," ">> \o question
      ELSE IF conversationContext # <<>>
      THEN conversationContext \o <<"\n","\n","Q","u","e","s","t","i","o","n",":"," ">> \o question
      ELSE IF Truthy(fileContext)
      THEN <<"F","i","l","e"," ","c","o","n","t","e","n","t","s",":","\n">> \o fileContext.value \o <<"\n","\n","Q","u","e","s","t","i","o","n",":"," ">> \o question
      ELSE question

\* the query of the default branch
DefaultQuery(mh, kb, chatId, question) ==
  LET conversationContext == getConversationContext(mh, chatId)
      fileContext == getKnowledgeBase(kb, chatId)
  IN  IF conversationContext # <<>> /\ Truthy(fileContext)
      THEN conversationContext \o <<"\n","\n","F","i","l","e"," ","c","o","n","t","e","n","t","s",":","\n">> \o fileContext.value
             \o <<"\n","\n","C","u","r","r","e","n","t"," ","q","u","e","s","t","i","o","n",":"," ">> \o question
      ELSE IF conversationContext # <<>>
      THEN conversationContext \o <<"\n","\n","C","u","r","r","e","n","t"," ","q","u","e","s","t","i","o","n",":"," ">> \o question
      ELSE IF Truthy(fileContext)
      THEN <<"F","i","l","e"," ","c","o","n","t","e","n","t","s",":","\n">> \o fileContext.value \o <<"\n","\n","Q","u","e","s","t","i","o","n",":"," ">> \o question
      ELSE question

\* answerQuestion(chatId, question): the query it hands to queryDedalusAgent
answerQuestion(mh, kb, chatId, question) ==
  IF Branch(question) = "analysis" THEN ImageAnalysisQuery(mh, kb, chatId, question)
  ELSE IF Branch(question) = "generation" THEN ImageGenerationQuery(mh, kb, chatId, question)
  ELSE DefaultQuery(mh, kb, chatId, question)

\* answerQuestion(chatId, question) up to the await of queryDedalusAgent
AnswerQuestion(chatId, question) ==
  /\ Len(asked) < MaxAsks
  /\ SendQuery(answerQuestion(messageHistory, knowledgeBase, chatId, question), chatId)
  /\ asked' = Append(asked, [chatId |-> chatId, question |-> question,
                             branch |-> Branch(question)])
  /\ UNCHANGED storeVars
  /\ UNCHANGED otherVars
----------------------------------------------------------------------------
(* The earlier fileHandler, which keeps its own messageHistory map and reads *)
(* attachments inside addMessageToHistory *)

\* the messages given to the earlier addMessageToHistory
LegacyMessages == {PlainMessage, OwnFileMessage}

LegacyInit ==
  legacy = [messageHistory |-> [c \in {} |-> 0], arrays |-> <<>>, calls |-> <<>>]

\* path.extname(filename).toLowerCase()
extname(filename) == <<".">> \o AfterLastDot(ToLowerCase(filename))

\* whether addMessageToHistory awaits the reading of an attachment of the message
AwaitsRead(message) ==
  \E i \in 1..Len(message.attachments) :
    extname(message.attachments[i].filename) \in {<<".","p","d","f">>, <<".","t","x","t">>, <<".","m","d">>}

\* messageHistory.get(chatId) || []: the array the call holds, and the arrays
\* there are after it
LegacyGet(l, chatId) ==
  IF chatId \in DOMAIN l.messageHistory
  THEN [history |-> l.messageHistory[chatId], arrays |-> l.arrays]
  ELSE [history |-> Len(l.arrays) + 1, arrays |-> Append(l.arrays, <<>>)]

\* extractedContent of an attachment: the text read from a pdf, txt or md
\* file, a placeholder for the rest
LegacyContent(filename) ==
  IF extname(filename) \in {<<".","p","d","f">>, <<".","t","x","t">>, <<".","m","d">>} THEN <<"t","e","x","t"," ","o","f"," ","t","h","e"," ","f","i","l","e">>
  ELSE IF extname(filename) \in {<<".","j","p","g">>, <<".","j","p","e","g">>, <<".","p","n","g">>, <<".","g","i","f">>}
  THEN <<"[","I","m","a","g","e",":"," ">> \o filename \o <<"]">>
  ELSE <<"[","F","i","l","e",":"," ">> \o filename \o <<"]">>

\* the entry of call number k; its timestamp tells the calls apart
LegacyEntry(message, k) ==
  [senderName |-> IF message.isFromMe THEN <<"Y","o","u">>
                  ELSE IF Truthy(message.senderName) THEN message.senderName.value
                  ELSE <<"U","n","k","n","o","w","n">>,
   text |-> message.text,
   attachments |-> [i \in 1..Len(message.attachments) |->
                      [filename |-> message.attachments[i].filename,
                       type |-> extname(message.attachments[i].filename),
                       extractedContent |->
                         LegacyContent(message.attachments[i].filename)]],
   timestamp |-> k]

\* history.push(entry), history.shift() beyond 10 entries, and
\* messageHistory.set(chatId, history), on the array the call holds
LegacyStore(mh, arrays, chatId, history, entry) ==
  [messageHistory |-> MapSet(mh, chatId, history),
   arrays |-> [arrays EXCEPT ![history] = PushBounded(@, entry, MAX_HISTORY)]]

\* addMessageToHistory(chatId, message) of the earlier fileHandler, up to its
\* first await, or to its end if it awaits nothing
LegacyAddMessageToHistory(chatId, message) ==
  /\ Len(legacy.calls) < MaxLegacyCalls
  /\ LET k == Len(legacy.calls) + 1
         got == LegacyGet(legacy, chatId)
         stored == LegacyStore(legacy.messageHistory, got.arrays, chatId,
                               got.history, LegacyEntry(message, k))
         call == [chatId |-> chatId, message |-> message, history |-> got.history,
                  pc |-> "reading"]
     IN  IF AwaitsRead(message)
         THEN legacy' = [messageHistory |-> legacy.messageHistory,
                         arrays |-> got.arrays,
                         calls |-> Append(legacy.calls, call)]
         ELSE legacy' = [messageHistory |-> stored.messageHistory,
                         arrays |-> stored.arrays,
                         calls |-> Append(legacy.calls, [call EXCEPT !.pc = "done"])]
  /\ UNCHANGED <<storeVars, agentVars, handlers>>

\* the attachment of call number k has been read: the call runs to its end
LegacyReadDone(k) ==
  /\ k \in 1..Len(legacy.calls)
  /\ legacy.calls[k].pc = "reading"
  /\ LET call == legacy.calls[k]
         stored == LegacyStore(legacy.messageHistory, legacy.arrays, call.chatId,
                               call.history, LegacyEntry(call.message, k))
     IN  legacy' = [messageHistory |-> stored.messageHistory,
                    arrays |-> stored.arrays,
                    calls |-> [legacy.calls EXCEPT ![k].pc = "done"]]
  /\ UNCHANGED <<storeVars, agentVars, handlers>>
----------------------------------------------------------------------------
(* Message handlers: onGroupMessage of brief-ai/index.ts, and *)
(* processAndStoreFile of fileHandler.ts *)

BOT_NAME == <<"@","B","r","i","e","f","-","A","I">>

\* the group messages the watcher delivers
TaggedMessage ==
  [isFromMe |-> FALSE, senderName |-> Some(<<"A","l">>), text |-> Some(<<"@","B","R","I","E","F","-","A","I"," ","h","i">>),
   attachments |-> <<>>]
OwnTaggedMessage ==
  [isFromMe |-> TRUE, senderName |-> Some(<<"B","o","t">>), text |-> Some(<<"@","B","r","i","e","f","-","A","I"," ","h","i">>),
   attachments |-> <<>>]
FileMessage ==
  [isFromMe |-> FALSE, senderName |-> Some(<<"A","l">>), text |-> Undefined,
   attachments |-> << [filename |-> <<"f",".","t","x","t">>] >>]

PdfMessage ==
  [isFromMe |-> FALSE, senderName |-> Some(<<"A","l">>), text |-> Some(<<"@","B","r","i","e","f","-","A","I">>),
   attachments |-> << [filename |-> <<"g",".","p","d","f">>] >>]

ImageMessage ==
  [isFromMe |-> FALSE, senderName |-> Some(<<"A","l">>), text |-> Undefined,
   attachments |-> << [filename |-> <<"p",".","P","N","G">>] >>]
ArchiveMessage ==
  [isFromMe |-> FALSE, senderName |-> Some(<<"A","l">>), text |-> Undefined,
   attachments |-> << [filename |-> <<"a",".","z","i","p">>] >>]

\* uploads of every kind of file processAndStoreFile tells apart
UploadMessages == {FileMessage, PdfMessage, ImageMessage, ArchiveMessage}

BotMessages ==
  {PlainMessage, TaggedMessage, OwnTaggedMessage, FileMessage, PdfMessage, OwnFileMessage}

BotInit == handlers = <<>>

\* message.text || ''
TextOf(message) == IF Truthy(message.text) THEN message.text.value ELSE <<>>

\* the place of the first match of new RegExp(name, 'i') in text, 0 if none
SearchIgnoreCase(text, name) ==
  LET hits == {i \in 1..(Len(text) - Len(name) + 1) :
                 ToLowerCase(SubSeq(text, i, i + Len(name) - 1)) = ToLowerCase(name)}
  IN  IF hits = {} THEN 0 ELSE CHOOSE i \in hits : \A k \in hits : i <= k

Whitespace == {" ", "\n", "\t", "\r"}

\* String.prototype.trim
Trim(s) ==
  LET solid == {i \in 1..Len(s) : s[i] \notin Whitespace}
  IN  IF solid = {} THEN <<>>
      ELSE SubSeq(s, CHOOSE i \in solid : \A k \in solid : i <= k,
                     CHOOSE i \in solid : \A k \in solid : i >= k)

\* text.replace(new RegExp(BOT_NAME, 'i'), '').trim()
TagQuestion(message) ==
  LET text == TextOf(message)
      at == SearchIgnoreCase(text, BOT_NAME)
  IN  Trim(IF at = 0 THEN text
           ELSE SubSeq(text, 1, at - 1) \o SubSeq(text, at + Len(BOT_NAME), Len(text)))

\* mutant: own messages are handled like the messages of others
Route_OwnToo(message) ==
  IF Len(message.attachments) > 0 THEN "file"
  ELSE IF Includes(ToLowerCase(TextOf(message)), ToLowerCase(BOT_NAME)) THEN "tag"
  ELSE "none"

\* what onGroupMessage does with a message once it is in the history
Route(message) ==
  IF message.isFromMe THEN "none"
  ELSE IF Len(message.attachments) > 0 THEN "file"
  ELSE IF Includes(ToLowerCase(TextOf(message)), ToLowerCase(BOT_NAME)) THEN "tag"
  ELSE "none"

\* String.prototype.startsWith
HasPrefix(s, prefix) == Len(prefix) <= Len(s) /\ SubSeq(s, 1, Len(prefix)) = prefix

\* imageProcessor.isImageFile(filename)
isImageFile(filename) ==
  extname(filename) \in {<<".","j","p","g">>, <<".","j","p","e","g">>, <<".","p","n","g">>, <<".","g","i","f">>, <<".","w","e","b","p">>, <<".","b","m","p">>}

\* fileType of processAndStoreFile, by the name of the file
FileTypeOf(filename) ==
  IF extname(filename) = <<".","p","d","f">> THEN "PDF"
  ELSE IF isImageFile(filename) THEN "Image"
  ELSE IF extname(filename) \in {<<".","t","x","t">>, <<".","m","d">>} THEN "Text"
  ELSE "Unknown"

\* what the extraction may come to: the content of the file (which may be
\* empty, or begin like an error message), the data URL of an image, the
\* failure a processor reports, or the exception of fs.readFile
Extracted == [threw |-> FALSE, success |-> TRUE, content |-> <<"H","e","l","l","o"," ","w","o","r","l","d">>, message |-> <<>>]
ProcessorFailed ==
  [threw |-> FALSE, success |-> FALSE, content |-> <<"[","E","r","r","o","r"," ","p","r","o","c","e","s","s","i","n","g"," ","P","D","F",":"," ","b","a","d","]">>,
   message |-> <<>>]
ReadThrew == [threw |-> TRUE, success |-> FALSE, content |-> <<>>, message |-> <<"E","N","O","E","N","T">>]

ExtractedEmpty == [threw |-> FALSE, success |-> TRUE, content |-> <<>>, message |-> <<>>]
ExtractedErrorText ==
  [threw |-> FALSE, success |-> TRUE, content |-> <<"[","E","r","r","o","r","]"," ","i","n"," ","l","o","g">>, message |-> <<>>]
ImageEncoded ==
  [threw |-> FALSE, success |-> TRUE, content |-> <<"d","a","t","a",":","i","m","a","g","e","/","p","n","g",";","b","a","s","e","6","4",",","A","A">>,
   message |-> <<>>]
ImageFailed ==
  [threw |-> FALSE, success |-> FALSE, content |-> <<"[","I","m","a","g","e"," ","t","o","o"," ","l","a","r","g","e",":"," ","9"," ","M","B","]">>,
   message |-> <<>>]

ReadOutcomes ==
  {Extracted, ExtractedEmpty, ExtractedErrorText, ImageEncoded, ProcessorFailed,
   ImageFailed, ReadThrew}

\* the outcomes the extraction of a file of this name can have
Outcomes(filename) ==
  IF FileTypeOf(filename) = "PDF" THEN {Extracted, ExtractedEmpty, ProcessorFailed}
  ELSE IF FileTypeOf(filename) = "Image" THEN {ImageEncoded, ImageFailed}
  ELSE IF FileTypeOf(filename) = "Text"
  THEN {Extracted, ExtractedEmpty, ExtractedErrorText, ReadThrew}
  ELSE {Extracted}

\* mutant: processAndStoreFile reports a failed reading as a success
processAndStoreFile_AlwaysSuccess(kb, chatId, file, outcome) ==
  [kb |-> kb,
   content |-> IF outcome.threw THEN <<"[","E","r","r","o","r",":"," ">> \o outcome.message \o <<"]">>
               ELSE outcome.content,
   success |-> TRUE, fileType |-> FileTypeOf(file.filename), stored |-> FALSE]

\* mutant: every content of a successful extraction is stored
processAndStoreFile_StoreAnyContent(kb, chatId, file, outcome) ==
  LET fileType == FileTypeOf(file.filename)
      extractedContent == IF fileType = "Unknown"
                          THEN <<"[","F","i","l","e",":"," ">> \o file.filename \o <<"]">>
                          ELSE outcome.content
      success == IF fileType \in {"PDF", "Image"} THEN outcome.success ELSE TRUE
  IN  IF outcome.threw
      THEN [kb |-> kb, content |-> <<"[","E","r","r","o","r",":"," ">> \o outcome.message \o <<"]">>,
            success |-> FALSE, fileType |-> "Error", stored |-> FALSE]
      ELSE [kb |-> IF success
                   THEN addFileToKnowledgeBase(kb, chatId, file.filename, extractedContent)
                   ELSE kb,
            content |-> extractedContent, success |-> success,
            fileType |-> fileType, stored |-> success]

\* processAndStoreFile(chatId, file): its result and the knowledge base after it
processAndStoreFile(kb, chatId, file, outcome) ==
  LET fileType == FileTypeOf(file.filename)
      extractedContent == IF fileType = "Unknown"
                          THEN <<"[","F","i","l","e",":"," ">> \o file.filename \o <<"]">>
                          ELSE outcome.content
      success == IF fileType \in {"PDF", "Image"} THEN outcome.success ELSE TRUE
      stored == success /\ extractedContent # <<>>
                  /\ ~HasPrefix(extractedContent, <<"[","E","r","r","o","r">>)
  IN  IF outcome.threw
      THEN [kb |-> kb, content |-> <<"[","E","r","r","o","r",":"," ">> \o outcome.message \o <<"]">>,
            success |-> FALSE, fileType |-> "Error", stored |-> FALSE]
      ELSE [kb |-> IF stored
                   THEN addFileToKnowledgeBase(kb, chatId, file.filename, extractedContent)
                   ELSE kb,
            content |-> extractedContent, success |-> success,
            fileType |-> fileType, stored |-> stored]

\* sdk.message(message).replyText(text)
Reply(kind, text) == [kind |-> kind, text |-> text]

\* the result of processAndStoreFile as handleFileLogic takes it
ResultOf(result) ==
  [content |-> result.content, success |-> result.success, fileType |-> result.fileType]

\* no result yet
NotExtracted == [content |-> <<>>, success |-> FALSE, fileType |-> "none"]

\* onGroupMessage(message), up to the first reply of the handler it calls:
\* what it does to the store and to the handlers
ReceiveGroupMessage(chatId, message) ==
  /\ messageHistory' = addMessageToHistory(messageHistory, chatId, message)
  /\ histLog' = [histLog EXCEPT ![chatId] = Append(@, message)]
  /\ cleared' = [cleared EXCEPT ![chatId].h = "no"]
  /\ LET route == Route(message)
         handler == [chatId |-> chatId, message |-> message, send |-> 0,
                     read |-> "none", extraction |-> NotExtracted,
                     pc |-> "ignored", replies |-> <<>>]
     IN  handlers' = Append(handlers,
           IF route = "file"
           THEN [handler EXCEPT
                   !.pc = "analyzing",
                   !.replies = << Reply("interim", Some(<<"A","n","a","l","y","z","i","n","g"," ","\"">>
                                    \o message.attachments[1].filename \o <<"\"",".",".",".">>)) >>]
           ELSE IF route = "tag"
           THEN [handler EXCEPT
                   !.pc = "processing",
                   !.replies = << Reply("interim", Some(<<"P","r","o","c","e","s","s","i","n","g",":"," ","\"">>
                                    \o TagQuestion(message) \o <<"\"",".",".",".">>)) >>]
           ELSE handler)
  /\ UNCHANGED <<knowledgeBase, fileLog>>
  /\ UNCHANGED agentVars
  /\ UNCHANGED legacy

\* onGroupMessage(message), up to the first reply of the handler it calls
OnGroupMessage(chatId, message) ==
  /\ Len(handlers) < MaxMessages
  /\ ReceiveGroupMessage(chatId, message)

\* the handlers of the messages that tag the bot
TagHandlers == {h \in 1..Len(handlers) : Route(handlers[h].message) = "tag"}

\* onGroupMessage(message) in a busy conversation: many messages, few of them
\* questions
OnBusyGroupMessage(chatId, message) ==
  /\ Len(handlers) < MaxBusyMessages
  /\ Route(message) = "tag" => Cardinality(TagHandlers) < MaxAsks
  /\ ReceiveGroupMessage(chatId, message)

\* the query handleFileLogic composes for a file that was processed
FileQuery(mh, chatId, file, result) ==
  LET conversationContext == getConversationContext(mh, chatId)
  IN  IF result.fileType = "Image"
      THEN <<"A","n","a","l","y","z","e"," ","t","h","i","s"," ","i","m","a","g","e"," ","f","i","l","e"," ">> \o file.filename \o <<":","\n","\n">> \o result.content
      ELSE IF conversationContext # <<>>
      THEN conversationContext \o <<"\n","\n","A","n","a","l","y","z","e"," ","t","h","i","s"," ","f","i","l","e"," ","c","o","n","t","e","n","t"," ","f","r","o","m"," ">>
             \o file.filename \o <<":","\n","\n">> \o result.content
      ELSE <<"A","n","a","l","y","z","e"," ","t","h","i","s"," ","f","i","l","e"," ","c","o","n","t","e","n","t"," ","f","r","o","m"," ">> \o file.filename \o <<":","\n","\n">>
             \o result.content

\* handleFileLogic after its first reply: processAndStoreFile, then the reply
\* of the failure or the query to the agent
HandleFileLogic(h, outcome) ==
  /\ h \in 1..Len(handlers)
  /\ handlers[h].pc = "analyzing"
  /\ outcome \in Outcomes(handlers[h].message.attachments[1].filename)
  /\ LET chatId == handlers[h].chatId
         file == handlers[h].message.attachments[1]
         read == IF outcome.threw \/ ~outcome.success THEN "failed" ELSE "extracted"
         result == processAndStoreFile(knowledgeBase, chatId, file, outcome)
     IN  /\ knowledgeBase' = result.kb
         /\ fileLog' = IF result.stored
                       THEN [fileLog EXCEPT ![chatId] =
                               Append(@, [filename |-> file.filename,
                                          content |-> result.content])]
                       ELSE fileLog
         /\ cleared' = IF result.stored THEN [cleared EXCEPT ![chatId].k = "no"]
                       ELSE cleared
         /\ IF ~result.success
            THEN /\ handlers' = [handlers EXCEPT
                                   ![h].pc = "done", ![h].read = read,
                                   ![h].extraction = ResultOf(result),
                                   ![h].replies = Append(@, Reply("final", Some(result.content)))]
                 /\ UNCHANGED <<dedalusAgent, procs, sends, now>>
            ELSE /\ SendQuery(FileQuery(messageHistory, chatId, file, result), chatId)
                 /\ handlers' = [handlers EXCEPT
                                   ![h].pc = "waiting", ![h].read = read,
                                   ![h].extraction = ResultOf(result),
                                   ![h].send = Len(sends) + 1]
  /\ UNCHANGED <<messageHistory, histLog>>
  /\ UNCHANGED asked
  /\ UNCHANGED legacy

\* handleTagLogic after its first reply: answerQuestion up to its query
HandleTagLogic(h) ==
  /\ h \in 1..Len(handlers)
  /\ handlers[h].pc = "processing"
  /\ LET chatId == handlers[h].chatId
         question == TagQuestion(handlers[h].message)
     IN  /\ SendQuery(answerQuestion(messageHistory, knowledgeBase, chatId, question), chatId)
         /\ asked' = Append(asked, [chatId |-> chatId, question |-> question,
                                    branch |-> Branch(question)])
  /\ handlers' = [handlers EXCEPT ![h].pc = "waiting", ![h].send = Len(sends) + 1]
  /\ UNCHANGED storeVars
  /\ UNCHANGED legacy

\* the await of queryDedalusAgent ends: the handler replies with the answer,
\* or the rejection leaves it as an exception
HandlerResumes(h) ==
  /\ h \in 1..Len(handlers)
  /\ handlers[h].pc = "waiting"
  /\ sends[handlers[h].send].outcome # "pending"
  /\ handlers' = [handlers EXCEPT ![h] =
                    IF sends[handlers[h].send].outcome = "resolved"
                    THEN [@ EXCEPT !.pc = "done",
                                   !.replies = Append(@, Reply("final", sends[handlers[h].send].value))]
                    ELSE [@ EXCEPT !.pc = "threw"]]
  /\ UNCHANGED storeVars
  /\ UNCHANGED agentVars
  /\ UNCHANGED legacy
----------------------------------------------------------------------------
(* Specifications *)

vars == <<messageHistory, knowledgeBase, histLog, fileLog, cleared,
          dedalusAgent, procs, sends, now, asked, handlers, legacy>>

Init == StoreInit /\ AgentInit /\ BotInit /\ LegacyInit

\* the message history alone, every message of Messages on every chat
NextHistory ==
  \/ \E c \in Chats, m \in Messages : AddMessageToHistory(c, m, MaxAppends)
  \/ \E c \in Chats : ClearMessageHistory(c)

SpecHistory == Init /\ [][NextHistory]_vars

\* the knowledge base alone, every file of Files on every chat
NextFiles ==
  \/ \E c \in Chats, f \in Files : AddFileToKnowledgeBase(c, f, MaxAppends)
  \/ \E c \in Chats : ClearKnowledgeBase(c)

SpecFiles == Init /\ [][NextFiles]_vars

\* both maps together, one message and one file, long enough to fill both
NextStore ==
  \/ \E c \in Chats : AddMessageToHistory(c, OwnFileMessage, MaxStoreAppends)
  \/ \E c \in Chats : AddFileToKnowledgeBase(c, NotesFile, MaxStoreAppends)
  \/ \E c \in Chats : ClearMessageHistory(c)
  \/ \E c \in Chats : ClearKnowledgeBase(c)

SpecStore == Init /\ [][NextStore]_vars

\* the supervisor: start, stop, sends, the agent's output, timers and exits
NextAgent ==
  \/ StartDedalusAgent
  \/ StopDedalusAgent
  \/ \E query \in Queries, chatId \in Chats : QueryDedalusAgent(query, chatId)
  \/ \E p \in 1..Len(procs) : \E chunk \in Chunks(p) : StdoutData(p, chunk)
  \/ \E q \in 1..Len(sends) : TimeoutFires(q)
  \/ \E p \in 1..Len(procs) : ProcessExit(p)
  \/ Tick

SpecAgent == Init /\ [][NextAgent]_vars


\* the assembler: a conversation is built on chat A, then questions are put on
\* either chat
NextAnswer ==
  \/ \E m \in Messages : asked = <<>> /\ AddMessageToHistory("A", m, MaxAnswerAppends)
  \/ asked = <<>> /\ AddFileToKnowledgeBase("A", NotesFile, MaxAnswerAppends)
  \/ \E c \in Chats, question \in Questions : AnswerQuestion(c, question)

SpecAnswer == Init /\ [][NextAnswer]_vars

\* the rendering of attachments whose extracted content is about 500 characters long
NextRender ==
  \E c \in Chats, n \in NameLengths :
    AddMessageToHistory(c, LongFileMessage(n), MaxRenderAppends)

SpecRender == Init /\ [][NextRender]_vars

\* the requests process p has read and not answered
Open(p) == {q \in 1..Len(sends) : sends[q].pid = p /\ q \notin procs[p].answered}

\* the supervisor with an agent whose response lines may arrive in two chunks
NextSplit ==
  \/ \E query \in Queries, chatId \in Chats : QueryDedalusAgent(query, chatId)
  \/ \E p \in 1..Len(procs) : \E chunk \in Chunks(p) : StdoutData(p, chunk)
  \/ \E p \in 1..Len(procs) : \E q \in Open(p) : \E line \in ResponseLines(q) :
       StdoutHead(p, line)
  \/ \E p \in 1..Len(procs) : \E q \in Open(p) : \E line \in ResponseLines(q) :
       StdoutTail(p, line)
  \/ \E q \in 1..Len(sends) : TimeoutFires(q)
  \/ Tick

SpecSplit == Init /\ [][NextSplit]_vars

\* the earlier fileHandler: calls of addMessageToHistory that overlap
NextLegacy ==
  \/ \E c \in Chats, m \in LegacyMessages : LegacyAddMessageToHistory(c, m)
  \/ \E k \in 1..Len(legacy.calls) : LegacyReadDone(k)

SpecLegacy == Init /\ [][NextLegacy]_vars

\* the outcomes of an extraction the handlers tell apart: content, a failure
\* reported, an exception
HandlerOutcomes == {Extracted, ProcessorFailed, ReadThrew}

\* the bot on one conversation: messages, their handlers, the agent's output
\* and the timers
NextBot ==
  \/ \E m \in BotMessages : OnGroupMessage("A", m)
  \/ \E h \in 1..Len(handlers) : \E outcome \in HandlerOutcomes : HandleFileLogic(h, outcome)
  \/ \E h \in 1..Len(handlers) : HandleTagLogic(h)
  \/ \E h \in 1..Len(handlers) : HandlerResumes(h)
  \/ \E p \in 1..Len(procs) : \E chunk \in Chunks(p) : StdoutData(p, chunk)
  \/ \E q \in 1..Len(sends) : TimeoutFires(q)
  \/ Tick

SpecBot == Init /\ [][NextBot]_vars

\* the handlers up to their queries, on both conversations
NextRoute ==
  \/ \E c \in Chats, m \in BotMessages : OnGroupMessage(c, m)
  \/ \E h \in 1..Len(handlers) : \E outcome \in HandlerOutcomes : HandleFileLogic(h, outcome)
  \/ \E h \in 1..Len(handlers) : HandleTagLogic(h)

SpecRoute == Init /\ [][NextRoute]_vars

\* one busy conversation: messages keep arriving while the handler of a
\* tagged question is between its first reply and its call of answerQuestion
NextBusy ==
  \/ \E m \in {PlainMessage, TaggedMessage, OwnTaggedMessage} : OnBusyGroupMessage("A", m)
  \/ \E h \in 1..Len(handlers) : HandleTagLogic(h)

SpecBusy == Init /\ [][NextBusy]_vars

\* uploads of every kind and what their extraction may come to
NextExtract ==
  \/ \E c \in Chats, m \in UploadMessages : OnGroupMessage(c, m)
  \/ \E h \in 1..Len(handlers) : \E outcome \in ReadOutcomes : HandleFileLogic(h, outcome)

SpecExtract == Init /\ [][NextExtract]_vars
----------------------------------------------------------------------------
(* Context store: properties *)

Min(a, b) == IF a < b THEN a ELSE b

\* the last min(n, Len(s)) elements of s, in order
LastN(s, n) == SubSeq(s, Len(s) - Min(n, Len(s)) + 1, Len(s))

History(c) == GetOrEmpty(messageHistory, c)
RetainedFiles(c) == GetOrEmpty(knowledgeBase, c)

\* C4: in every reachable state, every conversation's retained history has at
\* most MAX_HISTORY = 10 entries and its retained file list at most
\* MAX_FILES = 10 entries.
C4_Bounded ==
  /\ \A c \in DOMAIN messageHistory : Len(messageHistory[c]) <= 10
  /\ \A c \in DOMAIN knowledgeBase : Len(knowledgeBase[c]) <= 10

\* more than ten messages and more than ten files were added, each to one chat
C4_Witness ==
  /\ \E c \in Chats : Len(histLog[c]) > 10 /\ Len(History(c)) = 10
  /\ \E c \in Chats : Len(fileLog[c]) > 10 /\ Len(RetainedFiles(c)) = 10

\* the line getConversationContext is expected to render for each message of Messages
ExpectedLine(m) ==
  IF m = PlainMessage THEN <<"U","n","k","n","o","w","n",":"," ","h","i">>
  ELSE <<"Y","o","u",":"," ","\n"," "," ","[","A","t","t","a","c","h","m","e","n","t",":"," ","n",".","P","D","F","]","\n"," "," ","C","o","n","t","e","n","t",":"," ","[","P","D","F"," ","D","o","c","u","m","e","n","t",":"," ","n",".","P","D","F","]">>

RECURSIVE ExpectedLines(_)
ExpectedLines(ms) ==
  IF ms = <<>> THEN <<>>
  ELSE ExpectedLine(Head(ms)) \o <<"\n">> \o ExpectedLines(Tail(ms))

ExpectedContext(ms) ==
  IF ms = <<>> THEN <<>>
  ELSE <<"-","-","-"," ","R","e","c","e","n","t"," ","C","o","n","v","e","r","s","a","t","i","o","n"," ","H","i","s","t","o","r","y"," ","-","-","-","\n">> \o ExpectedLines(ms)
         \o <<"-","-","-"," ","E","n","d"," ","o","f"," ","C","o","n","v","e","r","s","a","t","i","o","n"," ","H","i","s","t","o","r","y"," ","-","-","-">>

\* C5: after n addMessageToHistory calls on a conversation, getConversationContext
\* renders exactly the last min(10, n) added messages, in the order they were
\* added, and nothing else.
C5_LastTenRendered ==
  \A c \in Chats :
    getConversationContext(messageHistory, c) = ExpectedContext(LastN(histLog[c], 10))

\* an eleventh and a twelfth message pushed the first two out, both kinds of message retained
C5_Witness ==
  \E c \in Chats :
    /\ Len(histLog[c]) >= 12
    /\ histLog[c][1] # histLog[c][11]
    /\ \E i, j \in 1..Len(History(c)) : History(c)[i] # History(c)[j]

\* C6: the retained files of a conversation are exactly the last min(10, n) files
\* added, in the order they were added: the oldest goes first, and a file whose
\* name is already retained is a further entry of its own.
C6_FifoNoDedup ==
  \A c \in Chats :
    /\ Len(RetainedFiles(c)) = Min(10, Len(fileLog[c]))
    /\ \A i \in 1..Len(RetainedFiles(c)) :
         LET f == fileLog[c][Len(fileLog[c]) - Len(RetainedFiles(c)) + i]
         IN  /\ RetainedFiles(c)[i].filename = f.filename
             /\ RetainedFiles(c)[i].content = f.content

\* the oldest file was dropped and one filename is retained twice
C6_Witness ==
  \E c \in Chats :
    /\ Len(fileLog[c]) > 10
    /\ fileLog[c][1] # RetainedFiles(c)[1]
    /\ \E i, j \in 1..Len(RetainedFiles(c)) :
         i < j /\ RetainedFiles(c)[i].filename = RetainedFiles(c)[j].filename

\* C7: getKnowledgeBase returns undefined exactly for a conversation that retains
\* no file; with a file retained, also one of empty content, it returns a string.
C7_AbsentIffNoFiles ==
  \A c \in Chats \cup {NeverUsedChat} :
    LET added == IF c \in Chats THEN fileLog[c] ELSE <<>>
        kb == getKnowledgeBase(knowledgeBase, c)
    IN  /\ (kb = Undefined) <=> (added = <<>>)
        /\ added # <<>> => kb.defined /\ Len(kb.value) > 0

\* a conversation whose only files have empty content
C7_Witness ==
  \E c \in Chats :
    /\ fileLog[c] # <<>>
    /\ \A i \in 1..Len(fileLog[c]) : fileLog[c][i].content = <<>>
    /\ getKnowledgeBase(knowledgeBase, c).defined

\* C8: once clearMessageHistory and clearKnowledgeBase were applied to a
\* conversation, its two renderings are those of a conversation id never used,
\* whatever it held before, and clearing it again changes neither map.
C8_ResetIsNeverUsed ==
  \A c \in Chats :
    (cleared[c].h # "no" /\ cleared[c].k # "no") =>
      /\ getConversationContext(messageHistory, c)
           = getConversationContext(messageHistory, NeverUsedChat)
      /\ getKnowledgeBase(knowledgeBase, c) = getKnowledgeBase(knowledgeBase, NeverUsedChat)
      /\ getConversationContext(messageHistory, c) = <<>>
      /\ getKnowledgeBase(knowledgeBase, c) = Undefined
      /\ clearMessageHistory(messageHistory, c) = messageHistory
      /\ clearKnowledgeBase(knowledgeBase, c) = knowledgeBase

\* a conversation that held messages and files when it was cleared
C8_Witness ==
  \E c \in Chats : cleared[c].h = "wiped" /\ cleared[c].k = "wiped"

\* the step is no operation on chat b
NotTouched(b) ==
  /\ histLog'[b] = histLog[b]
  /\ fileLog'[b] = fileLog[b]
  /\ cleared'[b] = cleared[b]

\* C9: an operation on one conversation leaves the history and the files of every
\* other conversation as they were.
C9_Frame ==
  [][\A b \in Chats :
       NotTouched(b) =>
         /\ (b \in DOMAIN messageHistory') = (b \in DOMAIN messageHistory)
         /\ (b \in DOMAIN knowledgeBase') = (b \in DOMAIN knowledgeBase)
         /\ GetOrEmpty(messageHistory', b) = GetOrEmpty(messageHistory, b)
         /\ GetOrEmpty(knowledgeBase', b) = GetOrEmpty(knowledgeBase, b)]_vars

\* one conversation has evicted entries while the other holds messages and files
C9_Witness ==
  \E a, b \in Chats :
    /\ a # b
    /\ Len(histLog[a]) > 10
    /\ cleared[a].k = "wiped"
    /\ History(b) # <<>> /\ RetainedFiles(b) # <<>>


\* the section getKnowledgeBase is expected to render for each file of Files
ExpectedSection(f) ==
  IF f = NotesFile THEN <<"-","-","-"," ","C","o","n","t","e","n","t"," ","f","r","o","m"," ","n","o","t","e","s",".","p","d","f"," ","-","-","-","\n","H","e","l","l","o"," ","w","o","r","l","d","\n","-","-","-"," ","E","n","d"," ","o","f"," ","C","o","n","t","e","n","t"," ","-","-","-">>
  ELSE <<"-","-","-"," ","C","o","n","t","e","n","t"," ","f","r","o","m"," ","a",".","t","x","t"," ","-","-","-","\n","\n","-","-","-"," ","E","n","d"," ","o","f"," ","C","o","n","t","e","n","t"," ","-","-","-">>

RECURSIVE ExpectedKnowledge(_)
ExpectedKnowledge(fs) ==
  IF fs = <<>> THEN <<>>
  ELSE IF Len(fs) = 1 THEN ExpectedSection(Head(fs))
  ELSE ExpectedSection(Head(fs)) \o <<"\n","\n">> \o ExpectedKnowledge(Tail(fs))

\* C23: getKnowledgeBase renders every retained file as a begin marker with
\* its filename, its stored content and an end marker, the files in the order
\* they were added; notes.pdf with "Hello world" gives a marker pair around
\* exactly "Hello world".
C23_KnowledgeRendering ==
  \A c \in Chats :
    RetainedFiles(c) # <<>>
      => getKnowledgeBase(knowledgeBase, c)
           = Some(ExpectedKnowledge(LastN(fileLog[c], 10)))

\* a conversation retains notes.pdf and, added after it, a.txt
C23_Witness ==
  \E c \in Chats :
    /\ Len(RetainedFiles(c)) = 2
    /\ fileLog[c] = <<NotesFile, EmptyFile>>

\* the extracted content of the attachment of LongFileMessage(n), as it is
\* expected in the rendering
ExpectedLongContent(n) ==
  LET full == <<"[","P","D","F"," ","D","o","c","u","m","e","n","t",":"," ">> \o [i \in 1..n |-> "x"] \o <<".","p","d","f","]">>
  IN  IF n + 20 > 500 THEN [i \in 1..500 |-> full[i]] \o <<".",".",".">> ELSE full

\* the line expected for LongFileMessage(n)
ExpectedLongLine(m) ==
  LET n == Len(m.attachments[1].filename) - 4
  IN  <<"A","l",":"," ","\n"," "," ","[","A","t","t","a","c","h","m","e","n","t",":"," ">> \o m.attachments[1].filename \o <<"]","\n"," "," ","C","o","n","t","e","n","t",":"," ">>
        \o ExpectedLongContent(n)

\* C26: extracted content of more than 500 characters is rendered as its first
\* 500 characters and "...", content of 500 characters or fewer unchanged.
C26_Truncation ==
  \A c \in Chats :
    histLog[c] # <<>> =>
      getConversationContext(messageHistory, c)
        = Join(<< <<"-","-","-"," ","R","e","c","e","n","t"," ","C","o","n","v","e","r","s","a","t","i","o","n"," ","H","i","s","t","o","r","y"," ","-","-","-">> >>
                 \o [k \in 1..Len(histLog[c]) |-> ExpectedLongLine(histLog[c][k])]
                 \o << <<"-","-","-"," ","E","n","d"," ","o","f"," ","C","o","n","v","e","r","s","a","t","i","o","n"," ","H","i","s","t","o","r","y"," ","-","-","-">> >>, NL)

\* a conversation holds an attachment whose content has exactly 500 characters
\* and one whose content has 501
C26_Witness ==
  \E c \in Chats :
    /\ Len(History(c)) = 2
    /\ Len(History(c)[1].attachments.value[1].extractedContent.value) = 500
    /\ Len(History(c)[2].attachments.value[1].extractedContent.value) = 501
----------------------------------------------------------------------------
(* Agent process supervisor: properties *)

\* C1: every send is settled only by the response that answers its own request,
\* and a send that returns a result returns the result of its own request.
C1_OwnResponse ==
  \A q \in 1..Len(sends) :
    /\ sends[q].settledBy \in {0, q}
    /\ \A other \in 1..Len(sends) \ {q} : sends[q].value # Some(AnswerTo(other))

\* C2: the response to a request whose send has timed out settles no send.
C2_LateResponseDiscarded ==
  \A q \in 1..Len(sends) :
    sends[q].settledBy # 0 => sends[sends[q].settledBy].timer # "fired"

\* C3: a send times out no earlier than 120 s after it started, and its timer is
\* cancelled by nothing but the arrival of the response to its own request.
C3_OwnDeadline ==
  \A q \in 1..Len(sends) :
    /\ sends[q].timer = "fired" => now >= sends[q].startedAt + 120000
    /\ sends[q].timer = "cleared" => q \in procs[sends[q].pid].answered

\* C10: at most one agent child process is running at any time.
C10_SingleProcess == Cardinality(Alive) <= 1


\* C11: a send is never written to a child process that has exited: after a
\* crash the send goes to a newly started process.
C11_SendGoesToLiveProcess ==
  [][Len(sends') > Len(sends)
       => procs'[sends'[Len(sends')].pid].state # "exited"]_vars

\* C12: once the agent has been stopped, no send is left pending.
C12_StopFailsPending ==
  dedalusAgent = 0 => \A q \in 1..Len(sends) : sends[q].outcome # "pending"

\* two sends that differ at most in whether a line was skipped
SameButNoise(a, b) == [a EXCEPT !.sawNoise = TRUE] = [b EXCEPT !.sawNoise = TRUE]

\* C13: a line that is no response, at the head of a chunk, changes nothing:
\* the listener of every send does with the chunk what it does with the lines
\* after it, so the line settles nothing, cancels no timer, takes no listener
\* off and does not end the processing of the chunk.
C13_NoiseIsSkipped ==
  \A q \in 1..Len(sends) :
    \A c \in Chunks(sends[q].pid) \cup {<<>>} :
      LET with == onData(sends[q], <<NoiseLine>> \o c, dedalusAgent)
          without == onData(sends[q], c, dedalusAgent)
      IN  /\ with.off = without.off
          /\ SameButNoise(with.send, without.send)

\* one send whose listener skipped a line is still pending with its timer
\* armed, another whose listener skipped a line was settled by a response
C13_Witness ==
  /\ \E q \in 1..Len(sends) :
       sends[q].sawNoise /\ sends[q].outcome = "pending" /\ sends[q].timer = "armed"
  /\ \E q \in 1..Len(sends) :
       sends[q].sawNoise /\ sends[q].outcome # "pending" /\ sends[q].settledBy # 0

\* C14: a send resolved by the success response to its own request returns
\* the result string of that response, the empty string included.
C14_ReturnsResult ==
  \A q \in 1..Len(sends) :
    (sends[q].outcome = "resolved" /\ sends[q].settledBy = q)
      => sends[q].value \in {Some(AnswerTo(q)), Some(<<>>)}

\* C15: a pending send whose listener took an error response is rejected with
\* the detail of the response, and its timer is cancelled.
C15_ErrorRejects ==
  \A q \in 1..Len(sends) :
    sends[q].matched = "error"
      => /\ sends[q].outcome = "rejected"
         /\ sends[q].value = Some(<<"b","o","o","m">>)
         /\ sends[q].timer = "cleared"

\* C16: every line written to the agent carries a requestId.
C16_RequestIdWritten ==
  \A p \in 1..Len(procs) :
    \A i \in 1..Len(procs[p].stdin) : "requestId" \in DOMAIN procs[p].stdin[i]

\* C27: every send is written to the process of the handle, which exists: a
\* send with no handle first spawns a process and writes the request as the
\* first line of its stdin; while a handle exists no step spawns a process.
C27_StartBeforeWrite ==
  [][/\ Len(sends') > Len(sends) =>
          LET pid == sends'[Len(sends')].pid
          IN  /\ pid # 0 /\ pid = dedalusAgent' /\ pid \in 1..Len(procs')
              /\ procs'[pid].stdin # <<>>
              /\ procs'[pid].stdin[Len(procs'[pid].stdin)].query = sends'[Len(sends')].query
              /\ dedalusAgent = 0 =>
                   /\ pid = Len(procs) + 1
                   /\ Len(procs'[pid].stdin) = 1
     /\ dedalusAgent # 0 => Len(procs') = Len(procs)]_vars

\* a send was written to the second process, spawned after a stop
C27_Witness ==
  \E q \in 1..Len(sends) :
    /\ sends[q].pid = 2
    /\ procs[1].state # "running"
    /\ procs[2].stdin # <<>>

\* C28: a send whose response line was printed in two chunks is settled once
\* the second chunk has been delivered.
C28_SplitLineSettles ==
  \A p \in 1..Len(procs) :
    \A q \in procs[p].split : sends[q].outcome # "pending"

\* nothing can settle send q any more: its timer is cancelled and the process
\* whose stdout its listener is attached to has exited
Stranded(q) ==
  /\ sends[q].outcome = "pending"
  /\ sends[q].timer = "cleared"
  /\ procs[sends[q].pid].state = "exited"

\* C31: every send settles, by a response or by its timer: no send is left
\* pending with its timer cancelled and no process that could still answer it.
C31_EverySendSettles == \A q \in 1..Len(sends) : ~Stranded(q)

\* the number of 'data' listeners of queryDedalusAgent on the stdout of the
\* processes 1..n
AttachedListeners ==
  LET F[n \in 0..Len(procs)] ==
        IF n = 0 THEN 0 ELSE F[n - 1] + Len(procs[n].listeners)
  IN  F[Len(procs)]

UnsettledSends == {q \in 1..Len(sends) : sends[q].outcome = "pending"}

\* C32: the number of stdout listeners attached by queryDedalusAgent equals
\* the number of sends that have not settled.
C32_ListenersMatchUnsettled == AttachedListeners = Cardinality(UnsettledSends)

----------------------------------------------------------------------------
(* Context assembler: properties *)

\* the messages of the conversation of call number i of answerQuestion: in
\* SpecAnswer no conversation outgrows MAX_HISTORY, so all are retained
Conversation(i) == histLog[asked[i].chatId]

\* in SpecAnswer call number i of answerQuestion made send number i
Payload(i) == sends[i].query

\* the class of each question of Questions, by the rules of the classification:
\* every marker matched without regard to case, image analysis before image
\* generation
ClaimedBranch(question) ==
  CASE question = QDefault -> "default"
    [] question = QAnalysis -> "analysis"
    [] question = QGeneration -> "generation"
    [] question = QPicture -> "generation"
    [] question = QBoth -> "analysis"
    [] question = QUpperPayload -> "analysis"

\* C17: every question takes the branch of its class, the markers matched
\* without regard to letter case and image analysis winning over image
\* generation.
C17_Classification ==
  \A i \in 1..Len(asked) : asked[i].branch = ClaimedBranch(asked[i].question)

\* C18: for an image-analysis question on a conversation of at least 5
\* entries, the prompt holds the last 5 entries of the history.
C18_LastFiveEntries ==
  \A i \in 1..Len(asked) :
    (asked[i].question \in {QAnalysis, QBoth} /\ Len(Conversation(i)) >= 5)
      => Includes(Payload(i), ExpectedLines(LastN(Conversation(i), 5)))

\* the lines getConversationContext is expected to render for each message of Messages
ExpectedEntryLines(m) ==
  IF m = PlainMessage THEN << <<"U","n","k","n","o","w","n",":"," ","h","i">> >>
  ELSE << <<"Y","o","u",":"," ">>, <<" "," ","[","A","t","t","a","c","h","m","e","n","t",":"," ","n",".","P","D","F","]">>, <<" "," ","C","o","n","t","e","n","t",":"," ","[","P","D","F"," ","D","o","c","u","m","e","n","t",":"," ","n",".","P","D","F","]">> >>

\* the lines of the rendered history of a conversation that is not empty
ExpectedRenderedLines(ms) ==
  << <<"-","-","-"," ","R","e","c","e","n","t"," ","C","o","n","v","e","r","s","a","t","i","o","n"," ","H","i","s","t","o","r","y"," ","-","-","-">> >>
    \o ConcatAll([k \in 1..Len(ms) |-> ExpectedEntryLines(ms[k])])
    \o << <<"-","-","-"," ","E","n","d"," ","o","f"," ","C","o","n","v","e","r","s","a","t","i","o","n"," ","H","i","s","t","o","r","y"," ","-","-","-">> >>

\* C19: for an image-analysis question the prompt is the last 5 lines of the
\* rendered history, then the question, and holds no knowledge-base content.
C19_AnalysisPrompt ==
  \A i \in 1..Len(asked) :
    ClaimedBranch(asked[i].question) = "analysis"
      => /\ ~Includes(Payload(i), <<"-","-","-"," ","C","o","n","t","e","n","t"," ","f","r","o","m"," ">>)
         /\ Payload(i) =
              IF Conversation(i) = <<>> THEN asked[i].question
              ELSE Join(LastN(ExpectedRenderedLines(Conversation(i)), 5), NL)
                     \o <<"\n","\n","C","u","r","r","e","n","t"," ","q","u","e","s","t","i","o","n",":"," ">> \o asked[i].question

\* C20: for an image-generation question the query handed to the agent, and
\* written to it, is the question itself, whatever the conversation holds.
C20_GenerationVerbatim ==
  \A i \in 1..Len(asked) :
    ClaimedBranch(asked[i].question) = "generation"
      => /\ Payload(i) = asked[i].question
         /\ \E k \in 1..Len(procs[sends[i].pid].stdin) :
              procs[sends[i].pid].stdin[k] =
                [query |-> asked[i].question, chat_id |-> asked[i].chatId]

\* an image-generation question was answered on a conversation that holds
\* history and files
C20_Witness ==
  \E i \in 1..Len(asked) :
    /\ ClaimedBranch(asked[i].question) = "generation"
    /\ History(asked[i].chatId) # <<>>
    /\ RetainedFiles(asked[i].chatId) # <<>>

\* the rendering expected of a knowledge base that holds n times NotesFile
RECURSIVE ExpectedNotes(_)
ExpectedNotes(n) ==
  IF n = 0 THEN <<>>
  ELSE IF n = 1 THEN <<"-","-","-"," ","C","o","n","t","e","n","t"," ","f","r","o","m"," ","n","o","t","e","s",".","p","d","f"," ","-","-","-","\n","H","e","l","l","o"," ","w","o","r","l","d","\n","-","-","-"," ","E","n","d"," ","o","f"," ","C","o","n","t","e","n","t"," ","-","-","-">>
  ELSE <<"-","-","-"," ","C","o","n","t","e","n","t"," ","f","r","o","m"," ","n","o","t","e","s",".","p","d","f"," ","-","-","-","\n","H","e","l","l","o"," ","w","o","r","l","d","\n","-","-","-"," ","E","n","d"," ","o","f"," ","C","o","n","t","e","n","t"," ","-","-","-","\n","\n">>
         \o ExpectedNotes(n - 1)

StartsWith(s, prefix) == Len(prefix) <= Len(s) /\ SubSeq(s, 1, Len(prefix)) = prefix
EndsWith(s, suffix) ==
  Len(suffix) <= Len(s) /\ SubSeq(s, Len(s) - Len(suffix) + 1, Len(s)) = suffix

\* C21: for a default question the prompt holds the history rendering iff the
\* conversation has history, the knowledge-base rendering iff it has files,
\* in the order history, knowledge base, question; with neither, the prompt
\* is the question.
C21_DefaultComposition ==
  \A i \in 1..Len(asked) :
    asked[i].question = QDefault =>
      LET history == ExpectedContext(Conversation(i))
          files == ExpectedNotes(Len(fileLog[asked[i].chatId]))
          question == asked[i].question
          middle == SubSeq(Payload(i), Len(history) + 1, Len(Payload(i)) - Len(question))
      IN  /\ StartsWith(Payload(i), history)
          /\ EndsWith(Payload(i), question)
          /\ history = <<>> => ~Includes(Payload(i), <<"-","-","-"," ","R","e","c","e","n","t"," ","C","o","n","v","e","r","s","a","t","i","o","n"," ","H","i","s","t","o","r","y"," ","-","-","-">>)
          /\ files # <<>> => Includes(middle, files)
          /\ files = <<>> => ~Includes(Payload(i), <<"-","-","-"," ","C","o","n","t","e","n","t"," ","f","r","o","m"," ">>)
          /\ (history = <<>> /\ files = <<>>) => Payload(i) = question

\* a default question was answered on a conversation that holds history and files
C21_Witness ==
  \E i \in 1..Len(asked) :
    /\ asked[i].question = QDefault
    /\ Conversation(i) # <<>>
    /\ fileLog[asked[i].chatId] # <<>>

\* C22: for a default question on a conversation with history and no files
\* the prompt is the history rendering, "\n\n", "Current question: " and the
\* question, with no file section.
C22_HistoryOnlyPrompt ==
  \A i \in 1..Len(asked) :
    (asked[i].question = QDefault /\ Conversation(i) # <<>>
       /\ fileLog[asked[i].chatId] = <<>>)
      => /\ Payload(i) = ExpectedContext(Conversation(i))
                           \o <<"\n","\n","C","u","r","r","e","n","t"," ","q","u","e","s","t","i","o","n",":"," ">> \o asked[i].question
         /\ ~Includes(Payload(i), <<"F","i","l","e"," ","c","o","n","t","e","n","t","s",":">>)

\* a default question was answered on a conversation that holds history and no file
C22_Witness ==
  \E i \in 1..Len(asked) :
    /\ asked[i].question = QDefault
    /\ Len(Conversation(i)) >= 2
    /\ fileLog[asked[i].chatId] = <<>>

----------------------------------------------------------------------------
(* The earlier fileHandler: properties *)

\* the history the earlier fileHandler holds for a conversation
LegacyHistory(c) ==
  IF c \in DOMAIN legacy.messageHistory
  THEN legacy.arrays[legacy.messageHistory[c]] ELSE <<>>

\* the calls of addMessageToHistory made for a conversation
LegacyCalls(c) == {k \in 1..Len(legacy.calls) : legacy.calls[k].chatId = c}

\* C29: once the calls of addMessageToHistory on a conversation have all
\* ended, however they overlapped, its history holds min(10, k) entries for k
\* calls, and with that (k <= 10) the entry of every call.
C29_NoEntryLost ==
  \A c \in Chats :
    (\A k \in LegacyCalls(c) : legacy.calls[k].pc = "done")
      => /\ Len(LegacyHistory(c)) = Min(10, Cardinality(LegacyCalls(c)))
         /\ \A k \in LegacyCalls(c) :
              \E i \in 1..Len(LegacyHistory(c)) : LegacyHistory(c)[i].timestamp = k

----------------------------------------------------------------------------
\* a handler has ended when it returned or an exception left it
Ended(h) == handlers[h].pc \in {"done", "threw"}

HasFinalReply(h) ==
  \E i \in 1..Len(handlers[h].replies) : handlers[h].replies[i].kind = "final"

\* C24: every group message whose processing started (a tagged question or an
\* upload of another sender) gets a final reply: no handler ends, by a
\* return or by an exception, without having sent one.
C24_EveryHandlerReplies ==
  \A h \in 1..Len(handlers) :
    (handlers[h].replies # <<>> /\ Ended(h)) => HasFinalReply(h)

\* the message names the bot, in any case of the letters
Tags(message) ==
  Truthy(message.text) /\ Includes(ToLowerCase(message.text.value), <<"@","b","r","i","e","f","-","a","i">>)

\* the handler replied or asked the agent
Acted(h) == handlers[h].replies # <<>> \/ handlers[h].send # 0

\* C25: a reply or an agent query is made for a group message only when the
\* message is not the bot's own and tags the bot or carries an attachment;
\* every query of the agent belongs to such a message.
C25_OnlyTaggedOrFile ==
  /\ \A h \in 1..Len(handlers) :
       Acted(h) => /\ ~handlers[h].message.isFromMe
                   /\ Tags(handlers[h].message) \/ handlers[h].message.attachments # <<>>
  /\ \A q \in 1..Len(sends) : \E h \in 1..Len(handlers) : handlers[h].send = q

\* a tagged question of another sender was asked of the agent and the bot's
\* own tagged message was left alone
C25_Witness ==
  \E h, g \in 1..Len(handlers) :
    /\ handlers[h].message = TaggedMessage /\ handlers[h].send # 0
    /\ handlers[g].message = OwnTaggedMessage /\ ~Acted(g)

\* the reply of a failed extraction of the file of handler h
FailureReply(h) ==
  IF FileTypeOf(handlers[h].message.attachments[1].filename) = "PDF"
  THEN Reply("final", Some(<<"[","E","r","r","o","r"," ","p","r","o","c","e","s","s","i","n","g"," ","P","D","F",":"," ","b","a","d","]">>))
  ELSE Reply("final", Some(<<"[","E","r","r","o","r",":"," ","E","N","O","E","N","T","]">>))

\* C30: the step of a file handler whose extraction fails ends the handler
\* with the failure message of the file as its reply, sends no query to the
\* agent, adds nothing to the knowledge base and changes nothing else that
\* later messages depend on.
C30_FailureSurfaced ==
  [][\A h \in 1..Len(handlers) :
       (handlers[h].pc = "analyzing" /\ handlers'[h].read = "failed") =>
          /\ handlers'[h].pc = "done"
          /\ handlers'[h].replies = Append(handlers[h].replies, FailureReply(h))
          /\ handlers'[h].send = 0
          /\ sends' = sends
          /\ knowledgeBase' = knowledgeBase
          /\ fileLog' = fileLog
          /\ messageHistory' = messageHistory
          /\ dedalusAgent' = dedalusAgent]_vars

\* the extraction of an upload failed and a later tagged question of the same
\* conversation was asked of the agent
C30_Witness ==
  \E h, g \in 1..Len(handlers) :
    /\ h < g
    /\ handlers[h].chatId = handlers[g].chatId
    /\ handlers[h].read = "failed" /\ handlers[h].pc = "done"
    /\ handlers[g].message = TaggedMessage /\ handlers[g].send # 0
    /\ GetOrEmpty(knowledgeBase, handlers[h].chatId) = <<>>

----------------------------------------------------------------------------
\* the entries of the history of conversation c
HistoryEntries(c) ==
  {GetOrEmpty(messageHistory, c)[i] : i \in 1..Len(GetOrEmpty(messageHistory, c))}

\* handler h calls answerQuestion in this step
CallsAnswerQuestion(h) ==
  handlers[h].pc = "processing" /\ handlers'[h].pc = "waiting"

\* C33: when the handler of a tagged message calls answerQuestion, the history
\* of the conversation is not empty and holds the entry of that message, and
\* the query of the default composition begins with the rendered history.
C33_QuestionInHistory ==
  [][\A h \in 1..Len(handlers) :
       CallsAnswerQuestion(h) =>
         /\ GetOrEmpty(messageHistory, handlers[h].chatId) # <<>>
         /\ HistoryEntry(handlers[h].message) \in HistoryEntries(handlers[h].chatId)
         /\ StartsWith(sends'[handlers'[h].send].query,
                       getConversationContext(messageHistory, handlers[h].chatId))]_vars

----------------------------------------------------------------------------
\* processAndStoreFile returns to handler h in this step
Extracts(h) == handlers[h].pc = "analyzing" /\ handlers'[h].pc # "analyzing"

\* the result says the file is to be stored
Storable(result) ==
  result.success /\ result.content # <<>> /\ ~StartsWith(result.content, <<"[","E","r","r","o","r">>)

\* C34: processAndStoreFile adds the file, under its name and with the
\* content it returns, to the knowledge base of the conversation if and only
\* if it reports success with a content that is not empty and does not start
\* with '[Error'; otherwise the knowledge base is unchanged; the history is
\* unchanged in every case.
C34_StoresIffStorable ==
  [][\A h \in 1..Len(handlers) :
       Extracts(h) =>
         LET chatId == handlers[h].chatId
             result == handlers'[h].extraction
             before == GetOrEmpty(knowledgeBase, chatId)
             after == GetOrEmpty(knowledgeBase', chatId)
             entry == [filename |-> handlers[h].message.attachments[1].filename,
                       content |-> result.content]
         IN  /\ Storable(result) =>
                  /\ after # <<>> /\ after[Len(after)] = entry
                  /\ after = LastN(Append(before, entry), MAX_FILES)
             /\ ~Storable(result) => knowledgeBase' = knowledgeBase
             /\ \A c \in Chats \ {chatId} :
                  GetOrEmpty(knowledgeBase', c) = GetOrEmpty(knowledgeBase, c)
             /\ messageHistory' = messageHistory]_vars

\* one upload was stored, and one whose extraction succeeded with a content
\* that starts like an error message was not
C34_Witness ==
  \E h, g \in 1..Len(handlers) :
    /\ handlers[h].chatId # handlers[g].chatId
    /\ Storable(handlers[h].extraction)
    /\ Len(GetOrEmpty(knowledgeBase, handlers[h].chatId)) = 1
    /\ handlers[g].extraction.success
    /\ StartsWith(handlers[g].extraction.content, <<"[","E","r","r","o","r">>)
    /\ GetOrEmpty(knowledgeBase, handlers[g].chatId) = <<>>
====
